---- MODULE Spec2Model ----
(***************************************************************************)
(* Transaction pool of core/tx_pool.go (TxPool): the two tiers pending and *)
(* queue, the index all, the cached volumes, the heartbeats, the managed   *)
(* nonce overlay, and the operations addTx, Remove, resetState (with       *)
(* demoteUnexecutables and promoteExecutables), Pending.                   *)
(*                                                                         *)
(* A transaction is a record [from, nonce, price]; its hash identifies it, *)
(* so the map all (hash -> tx) is the set of the transactions it indexes.  *)
(* Every transaction carries one unit of gas and no value, so its cost     *)
(* V + GP * GL is its price.  A txList is the set of its transactions (at  *)
(* most one per nonce); the maps pending, queue and beats are functions    *)
(* whose DOMAIN is the set of keys present.                                *)
(*                                                                         *)
(* The uint64 counters pendingVolume and queueVolume are integers that     *)
(* stand for their value modulo 2^64: a negative integer v stands for the  *)
(* wrapped value 2^64 + v.                                                 *)
(***************************************************************************)
EXTENDS Integers, FiniteSets, Sequences, TLC

\* ------------------------------------------------------------- bounds
MaxNonce == 2
MaxPrice == 2
MaxDrift == 1
MaxStateNonce == 1
DearNonce == 1
MaxBatch == 2

\* ------------------------------------------------- pool configuration
AccountSlots == 2
GlobalSlots == 2
GlobalQueue == 1
PriceLimit == 2
\* pool.gasPrice, line 209; SetGasPrice is not called.
gasPrice == PriceLimit
PriceBump == 10

repeatTxTest == FALSE

Addrs == {"a1", "a2"}
Nonces == 0..MaxNonce
Prices == 1..MaxPrice
\* The transactions submitted: at the lowest price one per nonce from a1 and
\* one per nonce below MaxNonce from a2, and from a1 the dearer ones at the
\* nonce DearNonce.
Tx == {t \in [from : Addrs, nonce : Nonces, price : Prices] :
          \/ t.price = 1 /\ (t.from = "a1" \/ t.nonce < MaxNonce)
          \/ t.from = "a1" /\ t.nonce = DearNonce}
\* The accounts whose nonce and balance the chain changes.
Movers == {"a1"}
NoTx == [from |-> "none", nonce |-> 0, price |-> 0]

TxGas == 1
gasLimit == 1
Cost(tx) == tx.price * TxGas

\* The orders in which a Go map may be walked, a heap may pop equal
\* priorities, or sort.Sort may leave equal keys.
Orders == {<<"a1", "a2">>, <<"a2", "a1">>}
Rank(ord, a) == CHOOSE i \in 1..Len(ord) : ord[i] = a

\* ------------------------------------------------------------ uint64
\* x < y on uint64 values in the representation above.
U64Lt(x, y) == IF (x < 0) = (y < 0) THEN x < y ELSE y < 0
U64Gt(x, y) == U64Lt(y, x)
U64Le(x, y) == ~U64Lt(y, x)

\* --------------------------------------------------------------- maps
MapDel(m, k) == [x \in DOMAIN m \ {k} |-> m[x]]
MapPut(m, k, v) == [x \in DOMAIN m \cup {k} |-> IF x = k THEN v ELSE m[x]]
MapGet(m, k, dflt) == IF k \in DOMAIN m THEN m[k] ELSE dflt

\* ------------------------------------------------------------- txList
NonceSet(l) == {t.nonce : t \in l}
MinNonceTx(l) == CHOOSE t \in l : \A u \in l : t.nonce <= u.nonce
MaxNonceTx(l) == CHOOSE t \in l : \A u \in l : t.nonce >= u.nonce
AtNonce(l, n) == {t \in l : t.nonce = n}

\* Add(T, bump): a new nonce is stored; an incumbent is displaced only by a
\* price of at least incumbent * (1 + bump/100).
ListAdd(l, tx, bump) ==
    LET old == AtNonce(l, tx.nonce) IN
    IF old # {} /\ \E o \in old : tx.price * 100 < o.price * (100 + bump)
    THEN [inserted |-> FALSE, old |-> {}, list |-> l]
    ELSE [inserted |-> TRUE, old |-> old, list |-> (l \ old) \cup {tx}]

Overlaps(l, tx) == AtNonce(l, tx.nonce) # {}

Forward(l, threshold) == {t \in l : t.nonce < threshold}

\* Filter(balance, gasLimit): the drops, and in a strict (pending) list the
\* survivors above the lowest drop.
FilterDrops(l, bal, gl) == {t \in l : Cost(t) > bal \/ TxGas > gl}
FilterInvalids(l, bal, gl, strict) ==
    LET drops == FilterDrops(l, bal, gl) IN
    IF strict /\ drops # {}
    THEN {t \in l \ drops : t.nonce > MinNonceTx(drops).nonce}
    ELSE {}

\* Ready(start): the contiguous run of nonces start, start+1, ...
Ready(l, start) ==
    {t \in l : t.nonce >= start /\ \A n \in start..t.nonce : n \in NonceSet(l)}

\* Cap(n): the highest nonces beyond the first n entries.
RECURSIVE ListCap(_, _)
ListCap(l, n) ==
    IF l = {} \/ Cardinality(l) <= n THEN {}
    ELSE {MaxNonceTx(l)} \cup ListCap(l \ {MaxNonceTx(l)}, n)

\* Remove(tx): removal is by nonce; a strict list gives up every higher nonce.
ListRemoved(l, tx) == AtNonce(l, tx.nonce)
ListInvalids(l, tx, strict) ==
    IF strict /\ ListRemoved(l, tx) # {} THEN {t \in l : t.nonce > tx.nonce} ELSE {}

\* ------------------------------------------------------- managed state
\* ManagedState.GetNonce / SetNonce: an overlay on the nonces of the state
\* it was created from.
GetNonce(ms, a) == ms[a]
SetNonce(ms, a, n) == [ms EXCEPT ![a] = n]

\* ---------------------------------------------------------- pool core
\* A pool value p is a record of the fields of TxPool.  An operation that
\* binds an intermediate result passes it to the operator of its next lines.
Ok(p) == [p |-> p, err |-> "nil"]

\* enqueueTx, lines 527-536: r is what list.Add returned.
enqueueTxAdded(p, tx, r) ==
    IF ~r.inserted
    THEN [p |-> p, ok |-> FALSE, replace |-> FALSE]
    ELSE [p |-> [p EXCEPT !.queue = MapPut(p.queue, tx.from, r.list),
                          !.all = (p.all \ r.old) \cup {tx},
                          !.queueVolume = IF r.old # {} THEN p.queueVolume
                                          ELSE p.queueVolume + 1],
          ok |-> TRUE, replace |-> r.old # {}]

enqueueTx(p, tx) ==
    enqueueTxAdded(p, tx, ListAdd(MapGet(p.queue, tx.from, {}), tx, PriceBump))

RECURSIVE EnqueueAll(_, _)
\* for _, tx := range invalids { pool.enqueueTx(tx.Hash(), tx) }
EnqueueAll(p, txs) ==
    IF txs = {} THEN p
    ELSE EnqueueAll(enqueueTx(p, MinNonceTx(txs)).p, txs \ {MinNonceTx(txs)})

\* removeTx, lines 710-717: rest is the pending list after Remove.
removeTxPostpone(p, addr, rest, invalids) ==
    IF rest = {}
    THEN [p EXCEPT !.pending = MapDel(p.pending, addr),
                   !.beats = MapDel(p.beats, addr)]
    ELSE EnqueueAll([p EXCEPT !.pending = MapPut(p.pending, addr, rest)], invalids)

removeTxNonceKeeps(p, tx) == p

\* Lines 719-721.
removeTxNonce(p, tx) ==
    IF GetNonce(p.pendingState, tx.from) > tx.nonce
    THEN [p EXCEPT !.pendingState = SetNonce(p.pendingState, tx.from, tx.nonce)]
    ELSE p

\* Lines 707-723: pl is pool.pending[addr], which held the nonce of tx.
removeTxPending(p, tx, pl) ==
    removeTxNonce(
        removeTxPostpone([p EXCEPT !.pendingVolume = p.pendingVolume - 1], tx.from,
                         (pl \ ListRemoved(pl, tx)) \ ListInvalids(pl, tx, TRUE),
                         ListInvalids(pl, tx, TRUE)),
        tx)

\* Lines 726-732: rest is the queue list after Remove.
removeTxFuture(p, addr, rest) ==
    IF rest = {}
    THEN [p EXCEPT !.queueVolume = p.queueVolume - 1, !.queue = MapDel(p.queue, addr)]
    ELSE [p EXCEPT !.queueVolume = p.queueVolume - 1,
                   !.queue = MapPut(p.queue, addr, rest)]

\* Lines 706-733, after delete(pool.all, hash).
removeTxLists(p, tx) ==
    IF tx.from \in DOMAIN p.pending /\ ListRemoved(p.pending[tx.from], tx) # {}
    THEN removeTxPending(p, tx, p.pending[tx.from])
    ELSE IF tx.from \in DOMAIN p.queue
    THEN removeTxFuture(p, tx.from,
                        p.queue[tx.from] \ ListRemoved(p.queue[tx.from], tx))
    ELSE p

removeTxBlind(p, tx) == removeTxLists([p EXCEPT !.all = p.all \ {tx}], tx)

removeTx(p, tx) ==
    IF tx \notin p.all THEN p
    ELSE removeTxLists([p EXCEPT !.all = p.all \ {tx}], tx)

RECURSIVE RemoveAll(_, _)
\* removeTx on each transaction of a sequence, in order.
RemoveAll(p, seq) ==
    IF seq = <<>> THEN p ELSE RemoveAll(removeTx(p, Head(seq)), Tail(seq))

\* broadcastTx: hook is "ok", "transient" (the broadcast failed) or "terminal"
\* (the result code is not 0: the transaction is removed).
broadcastTx(p, tx, hook) ==
    IF hook = "ok" THEN Ok(p)
    ELSE IF hook = "transient" THEN [p |-> p, err |-> "ErrBroadcastTX"]
    ELSE [p |-> removeTx(p, tx), err |-> "ResultLog"]

\* time.Now(): later than every heartbeat recorded so far.
Now(p) ==
    IF DOMAIN p.beats = {} THEN 1
    ELSE 1 + CHOOSE m \in {p.beats[a] : a \in DOMAIN p.beats} :
                 \A a \in DOMAIN p.beats : p.beats[a] <= m

\* promoteTx, lines 562-573: the insertion is recorded.
promoteTxMark(p, addr, tx, r) ==
    [p EXCEPT !.pending = MapPut(p.pending, addr, r.list),
              !.all = (p.all \ r.old) \cup {tx},
              !.pendingVolume = IF r.old # {} THEN p.pendingVolume
                                ELSE p.pendingVolume + 1,
              !.beats = MapPut(p.beats, addr, Now(p)),
              !.pendingState = SetNonce(p.pendingState, addr, tx.nonce + 1)]

\* promoteTx, lines 550-579: r is what list.Add returned.
promoteTxAdded(p, addr, tx, hook, r) ==
    IF ~r.inserted
    THEN Ok([p EXCEPT !.pending = MapPut(p.pending, addr, r.list),
                      !.all = p.all \ {tx}])
    ELSE IF p.tmClient
    THEN broadcastTx(promoteTxMark(p, addr, tx, r), tx, hook)
    ELSE Ok(promoteTxMark(p, addr, tx, r))

promoteTx(p, addr, tx, hook) ==
    promoteTxAdded(p, addr, tx, hook,
                   ListAdd(MapGet(p.pending, addr, {}), tx, PriceBump))

\* --------------------------------------------------- promoteExecutables
\* st is the state the caller read: [nonce, balance].  fail is the
\* transaction for which the forward hook fails (NoTx: none) and kind how.
HookFor(tx, fail, kind) == IF tx = fail THEN kind ELSE "ok"

PromoteReadyFirst(p, addr, ready, fail, kind) ==
    IF ready = {} THEN Ok(p)
    ELSE promoteTx([p EXCEPT !.queueVolume = p.queueVolume - 1], addr,
                   MinNonceTx(ready), HookFor(MinNonceTx(ready), fail, kind))

RECURSIVE PromoteReady(_, _, _, _, _)
RECURSIVE PromoteNext(_, _, _, _, _)
\* The loop over list.Ready(startNonce), lines 782-790.
PromoteReady(p, addr, ready, fail, kind) ==
    IF ready = {} THEN Ok(p)
    ELSE PromoteNext(promoteTx(p, addr, MinNonceTx(ready),
                               HookFor(MinNonceTx(ready), fail, kind)),
                     addr, ready \ {MinNonceTx(ready)}, fail, kind)

\* Lines 786-789: r is what promoteTx returned.
PromoteNext(r, addr, rest, fail, kind) ==
    IF r.err # "nil" THEN r
    ELSE PromoteReady([r.p EXCEPT !.queueVolume = r.p.queueVolume - 1],
                      addr, rest, fail, kind)

\* Lines 801-803: r is what the loop over the ready transactions left.
PromoteEmpty(r, addr) ==
    IF r.err # "nil" THEN r
    ELSE IF addr \in DOMAIN r.p.queue /\ r.p.queue[addr] = {}
    THEN Ok([r.p EXCEPT !.queue = MapDel(r.p.queue, addr)])
    ELSE r

\* As PromoteFiltered, with the ready transactions left in the queue list.
PromoteFilteredKeeps(p, addr, l, gone, ready, fail, kind) ==
    PromoteReady([p EXCEPT !.all = p.all \ gone,
                           !.queueVolume = p.queueVolume - Cardinality(gone),
                           !.queue = MapPut(p.queue, addr, l)],
                 addr, ready, fail, kind)

\* Lines 777-790: l is the queue list after Forward and Filter, gone what
\* they removed.
PromoteFiltered(p, addr, l, gone, ready, fail, kind) ==
    PromoteReady([p EXCEPT !.all = p.all \ gone,
                           !.queueVolume = p.queueVolume - Cardinality(gone),
                           !.queue = MapPut(p.queue, addr, l \ ready)],
                 addr, ready, fail, kind)

\* Lines 769-776: l is the queue list after Forward, olds what it removed.
PromoteForwarded(p, st, addr, l, olds, fail, kind) ==
    PromoteFiltered(p, addr,
                    (l \ FilterDrops(l, st.balance[addr], gasLimit))
                       \ FilterInvalids(l, st.balance[addr], gasLimit, FALSE),
                    olds \cup FilterDrops(l, st.balance[addr], gasLimit),
                    Ready((l \ FilterDrops(l, st.balance[addr], gasLimit))
                             \ FilterInvalids(l, st.balance[addr], gasLimit, FALSE),
                          GetNonce(p.pendingState, addr)),
                    fail, kind)

\* One turn of the loop over accounts, lines 751-804.
PromoteAccount(p, st, addr, fail, kind) ==
    IF addr \notin DOMAIN p.queue THEN Ok(p)
    ELSE PromoteEmpty(
             PromoteForwarded(p, st, addr,
                 p.queue[addr] \ (IF repeatTxTest THEN {}
                                  ELSE Forward(p.queue[addr], st.nonce[addr])),
                 IF repeatTxTest THEN {} ELSE Forward(p.queue[addr], st.nonce[addr]),
                 fail, kind),
             addr)

RECURSIVE PromoteAccounts(_, _, _, _, _)
RECURSIVE PromoteRest(_, _, _, _, _)
PromoteAccounts(p, st, accounts, fail, kind) ==
    IF accounts = <<>> THEN Ok(p)
    ELSE PromoteRest(PromoteAccount(p, st, Head(accounts), fail, kind),
                     st, Tail(accounts), fail, kind)

\* return err, line 787: the loop over accounts ends at the first error.
PromoteRest(r, st, accounts, fail, kind) ==
    IF r.err # "nil" THEN r ELSE PromoteAccounts(r.p, st, accounts, fail, kind)

\* Lines 846-850: the managed nonce falls to the lowest dropped nonce.
CapNonce(p, addr, drops) ==
    IF drops # {} /\ GetNonce(p.pendingState, addr) > MinNonceTx(drops).nonce
    THEN [p EXCEPT !.pendingState =
                       SetNonce(p.pendingState, addr, MinNonceTx(drops).nonce)]
    ELSE p

\* Lines 841-853 and 863-875: drops is what list.Cap(list.Len() - 1)
\* returned.  c is [p, pending]: the pool and the local count.
CapDrops(c, addr, drops) ==
    [p |-> CapNonce([c.p EXCEPT !.pending = MapPut(c.p.pending, addr,
                                                   c.p.pending[addr] \ drops),
                                !.all = c.p.all \ drops,
                                !.pendingVolume = c.p.pendingVolume - Cardinality(drops)],
                    addr, drops),
     pending |-> c.pending - 1]

CapOne(c, addr) ==
    CapDrops(c, addr, ListCap(c.p.pending[addr], Cardinality(c.p.pending[addr]) - 1))

RECURSIVE CapEach(_, _)
CapEach(c, offenders) ==
    IF offenders = <<>> THEN c ELSE CapEach(CapOne(c, Head(offenders)), Tail(offenders))

RECURSIVE Equalize(_, _, _)
\* Lines 838-855: all but the last offender lose one transaction per pass.
Equalize(c, offenders, threshold) ==
    IF U64Gt(c.pending, GlobalSlots)
       /\ Cardinality(c.p.pending[offenders[Len(offenders) - 1]]) > threshold
    THEN Equalize(CapEach(c, SubSeq(offenders, 1, Len(offenders) - 1)),
                  offenders, threshold)
    ELSE c

\* spammers.Pop(): the longest list first, equal lengths in the order ord.
PopSpammer(p0, spammers, ord) ==
    CHOOSE a \in spammers : \A b \in spammers :
        \/ Cardinality(p0.pending[a]) > Cardinality(p0.pending[b])
        \/ /\ Cardinality(p0.pending[a]) = Cardinality(p0.pending[b])
           /\ Rank(ord, a) <= Rank(ord, b)

RECURSIVE Offend(_, _, _, _, _)
RECURSIVE OffendWith(_, _, _, _, _)
\* Lines 827-857.  p0 is the pool when the spammers were pushed.
Offend(c, p0, spammers, offenders, ord) ==
    IF U64Gt(c.pending, GlobalSlots) /\ spammers # {}
    THEN OffendWith(c, p0, spammers, Append(offenders, PopSpammer(p0, spammers, ord)), ord)
    ELSE [c |-> c, offenders |-> offenders]

\* Lines 833-856: offs ends with the offender just popped.
OffendWith(c, p0, spammers, offs, ord) ==
    Offend(IF Len(offs) > 1
           THEN Equalize(c, offs, Cardinality(c.p.pending[offs[Len(offs)]]))
           ELSE c,
           p0, spammers \ {offs[Len(offs)]}, offs, ord)

ReduceNothing(c, offenders) == c

RECURSIVE Reduce(_, _)
\* Lines 861-877.
Reduce(c, offenders) ==
    IF U64Gt(c.pending, GlobalSlots)
       /\ Cardinality(c.p.pending[offenders[Len(offenders)]]) > AccountSlots
    THEN Reduce(CapEach(c, offenders), offenders)
    ELSE c

\* Lines 859-878: o is what the loop over the spammers left.
CapReduce(o) ==
    IF U64Gt(o.c.pending, GlobalSlots) /\ Len(o.offenders) > 0
    THEN Reduce(o.c, o.offenders).p
    ELSE o.c.p

CapPendingAll(p, ord) ==
    IF ~U64Gt(p.pendingVolume, GlobalSlots) THEN p
    ELSE CapReduce(Offend([p |-> p, pending |-> p.pendingVolume], p,
                          DOMAIN p.pending, <<>>, ord))

\* Pending fairness eviction, lines 810-880.
CapPending(p, ord) ==
    IF ~U64Gt(p.pendingVolume, GlobalSlots) THEN p
    ELSE CapReduce(Offend([p |-> p, pending |-> p.pendingVolume], p,
                          {a \in DOMAIN p.pending :
                              Cardinality(p.pending[a]) > AccountSlots},
                          <<>>, ord))

RECURSIVE Flatten(_)
\* Flatten(): the transactions of a list by ascending nonce.
Flatten(l) ==
    IF l = {} THEN <<>> ELSE <<MinNonceTx(l)>> \o Flatten(l \ {MinNonceTx(l)})

RECURSIVE Reverse(_)
Reverse(s) == IF s = <<>> THEN <<>> ELSE Append(Reverse(Tail(s)), Head(s))

\* addresssByHeartbeat after sort.Sort, its last element: heartbeat ascending
\* (a missing beat is the zero time), equal heartbeats in the order ord.
ByHeartbeatLast(p, addrs, ord) ==
    CHOOSE a \in addrs : \A b \in addrs :
        \/ MapGet(p.beats, a, 0) > MapGet(p.beats, b, 0)
        \/ /\ MapGet(p.beats, a, 0) = MapGet(p.beats, b, 0)
           /\ Rank(ord, a) >= Rank(ord, b)

RECURSIVE DropTail(_, _, _)
\* Lines 915-920: remove from the highest nonce down while drop > 0.
DropTail(p, txs, drop) ==
    IF txs = <<>> \/ ~U64Gt(drop, 0) THEN [p |-> p, drop |-> drop]
    ELSE DropTail(removeTx(p, Head(txs)), Tail(txs), drop - 1)

RECURSIVE DropQueued(_, _, _, _, _)
RECURSIVE DropFrom(_, _, _, _, _, _)
RECURSIVE DropRest(_, _, _, _)
\* Lines 899-921.  p0 is the pool when the addresses were sorted.
DropQueued(p, p0, addrs, drop, ord) ==
    IF ~U64Gt(drop, 0) \/ addrs = {} THEN p
    ELSE DropFrom(p, p0, addrs, drop, ord, ByHeartbeatLast(p0, addrs, ord))

\* Lines 900-920: a is the address taken from the end of addresses.
DropFrom(p, p0, addrs, drop, ord, a) ==
    IF U64Le(Cardinality(MapGet(p.queue, a, {})), drop)
    THEN DropQueued(RemoveAll(p, Flatten(MapGet(p.queue, a, {}))), p0, addrs \ {a},
                    drop - Cardinality(MapGet(p.queue, a, {})), ord)
    ELSE DropRest(DropTail(p, Reverse(Flatten(MapGet(p.queue, a, {}))), drop),
                  p0, addrs \ {a}, ord)

DropRest(d, p0, addrs, ord) == DropQueued(d.p, p0, addrs, d.drop, ord)

\* Future-queue eviction, lines 883-922.
CapQueue(p, ord) ==
    IF ~U64Gt(p.queueVolume, GlobalQueue) THEN p
    ELSE DropQueued(p, p, DOMAIN p.queue, p.queueVolume - GlobalQueue, ord)

\* Lines 806-923: r is what the loop over the accounts left.
PromoteCaps(r, ord) ==
    IF r.err # "nil" THEN r ELSE Ok(CapQueue(CapPending(r.p, ord), ord))

promoteExecutables(p, st, accounts, fail, kind, ord) ==
    PromoteCaps(PromoteAccounts(p, st, accounts, fail, kind), ord)

\* -------------------------------------------- demoteUnexecutables, reset
\* Lines 962-965: rest is the pending list after Forward and Filter.
DemoteEmpty(p, addr, rest) ==
    IF rest = {}
    THEN [p EXCEPT !.pending = MapDel(p.pending, addr),
                   !.beats = MapDel(p.beats, addr)]
    ELSE p

\* Lines 942-961: gone is what Forward and Filter dropped.
DemoteFiltered(p, addr, rest, gone, invalids) ==
    DemoteEmpty(EnqueueAll([p EXCEPT !.all = p.all \ gone,
                                    !.pendingVolume = p.pendingVolume - Cardinality(gone),
                                    !.pending = MapPut(p.pending, addr, rest)],
                           invalids),
                addr, rest)

\* Lines 949-961: l is the pending list after Forward, olds what it removed.
DemoteForwarded(p, st, addr, l, olds) ==
    DemoteFiltered(p, addr,
                   (l \ FilterDrops(l, st.balance[addr], gasLimit))
                      \ FilterInvalids(l, st.balance[addr], gasLimit, TRUE),
                   olds \cup FilterDrops(l, st.balance[addr], gasLimit),
                   FilterInvalids(l, st.balance[addr], gasLimit, TRUE))

endNonce(st, addr) == IF repeatTxTest THEN st.nonce[addr] + 2 ELSE st.nonce[addr]

\* One turn of the loop over pool.pending, lines 933-966.
DemoteAccount(p, st, addr) ==
    DemoteForwarded(p, st, addr,
                    p.pending[addr] \ Forward(p.pending[addr], endNonce(st, addr)),
                    Forward(p.pending[addr], endNonce(st, addr)))

RECURSIVE DemoteEach(_, _, _)
DemoteEach(p, st, addrs) ==
    IF addrs = {} THEN p
    ELSE DemoteEach(DemoteAccount(p, st, CHOOSE x \in addrs : TRUE), st,
                    addrs \ {CHOOSE x \in addrs : TRUE})

demoteUnexecutables(p, st) == DemoteEach(p, st, DOMAIN p.pending)

\* The keys of a map in the order ord.
RECURSIVE KeysInOrder(_, _)
KeysInOrder(keys, ord) ==
    IF ord = <<>> THEN <<>>
    ELSE IF Head(ord) \in keys THEN <<Head(ord)>> \o KeysInOrder(keys, Tail(ord))
    ELSE KeysInOrder(keys, Tail(ord))

\* Lines 304-307: the managed nonce of every pending sender.
NoncesAfterPending(p) ==
    [p EXCEPT !.pendingState =
        [a \in DOMAIN p.pendingState |->
            IF a \in DOMAIN p.pending
            THEN MaxNonceTx(p.pending[a]).nonce + 1
            ELSE p.pendingState[a]]]

\* Line 310: promoteExecutables(currentState, nil) walks pool.queue in the
\* order walk.
resetPromote(p, st, fail, kind, walk, ord) ==
    promoteExecutables(p, st, KeysInOrder(DOMAIN p.queue, walk), fail, kind, ord)

resetStateAnyway(p, st, ok, fail, kind, walk, ord) ==
    IF ~ok THEN [p |-> demoteUnexecutables([p EXCEPT !.pendingState = st.nonce], st),
                 err |-> "StateErr"]
    ELSE resetPromote(
             NoncesAfterPending(
                 demoteUnexecutables([p EXCEPT !.pendingState = st.nonce], st)),
             st, fail, kind, walk, ord)

\* resetState: ok is whether currentState() succeeded and st what it returned.
\* The result is the pool and the error resetState logged or dropped: that of
\* currentState(), or that of promoteExecutables.
resetState(p, st, ok, fail, kind, walk, ord) ==
    IF ~ok THEN [p |-> p, err |-> "StateErr"]
    ELSE resetPromote(
             NoncesAfterPending(
                 demoteUnexecutables([p EXCEPT !.pendingState = st.nonce], st)),
             st, fail, kind, walk, ord)

\* ---------------------------------------------------------------- state
VARIABLES pending, queue, all, pendingVolume, queueVolume, beats,
          pendingState, tmClient, stateNonce, balance, adm, ret, run

vars == <<pending, queue, all, pendingVolume, queueVolume, beats,
          pendingState, tmClient, stateNonce, balance, adm, ret, run>>

poolVars == <<pending, queue, all, pendingVolume, queueVolume, beats,
              pendingState, tmClient>>

Pool == [pending |-> pending, queue |-> queue, all |-> all,
         pendingVolume |-> pendingVolume, queueVolume |-> queueVolume,
         beats |-> beats, pendingState |-> pendingState, tmClient |-> tmClient]

\* stats(), lines 369-379: the volumes counted by walking the lists.
RECURSIVE SumLens(_, _)
SumLens(m, keys) ==
    IF keys = {} THEN 0
    ELSE Cardinality(m[CHOOSE x \in keys : TRUE])
         + SumLens(m, keys \ {CHOOSE x \in keys : TRUE})
stats(p) == [pending |-> SumLens(p.pending, DOMAIN p.pending),
             queued |-> SumLens(p.queue, DOMAIN p.queue)]

\* The runs explored: each cached volume is within MaxDrift of the count.
Explored(p) ==
    /\ p.pendingVolume - stats(p).pending \in -MaxDrift..MaxDrift
    /\ p.queueVolume - stats(p).queued \in -MaxDrift..MaxDrift

\* Heartbeats are kept up to their order: the k distinct timestamps present
\* are 1..k.  The pool only compares heartbeats with one another.
BeatRank(b, a) == Cardinality({b[x] : x \in {y \in DOMAIN b : b[y] <= b[a]}})
Timeless(b) == [a \in DOMAIN b |-> BeatRank(b, a)]

SetPool(p) ==
    /\ Explored(p)
    /\ pending' = p.pending
    /\ queue' = p.queue
    /\ all' = p.all
    /\ pendingVolume' = p.pendingVolume
    /\ queueVolume' = p.queueVolume
    /\ beats' = Timeless(p.beats)
    /\ pendingState' = p.pendingState
    /\ tmClient' = p.tmClient

\* currentState(): the chain state the oracle returns.
currentState == [nonce |-> stateNonce, balance |-> balance]

EmptyMap == [a \in {} |-> 0]
Idle == [pc |-> "idle", tx |-> NoTx]
\* What the operation that returned last left: the operation, the error it
\* returned, the error of the promoteExecutables it ran ("none": it ran
\* none), and for addTx what Get(tx.Hash()) gives right afterwards.
NoRet == [op |-> "none", err |-> "nil", perr |-> "none", got |-> FALSE]
Returned(op, err, perr, got) == [op |-> op, err |-> err, perr |-> perr, got |-> got]

\* The goroutines besides the callers of addTx: who holds pool.mu across
\* steps ("free": nobody), the batch admission addTxs (its position, the
\* transactions left, those accepted (dirty holds their senders), whether
\* eventLoop runs it, and the first error add returned to it),
\* eventLoop, expirationLoop and Stop, whether Stop closed the event
\* subscription and pool.quit, and the senders whose heartbeat the last
\* expiration sweep found older than Lifetime.
NoBatch == [pc |-> "none", txs |-> <<>>, dirty |-> {}, inLoop |-> FALSE,
            first |-> "nil"]
Started == [mu |-> "free", batch |-> NoBatch, loop |-> "select",
            sweeper |-> "select", stop |-> "none", closed |-> FALSE, expired |-> {}]
\* pool.mu.Lock() returns: no goroutine holds the mutex.
Unlocked == run.mu = "free"

\* Pending, lines 401-410: the pending lists, flattened.
Pending(p) == [a \in DOMAIN p.pending |-> Flatten(p.pending[a])]

\* Get, lines 668-673.
Get(p, tx) == tx \in p.all

\* NewTxPool, lines 193-229: empty maps, then resetState on the initial
\* state; and SetTMClient, lines 1003-1005, which the node calls as it starts.
\* A hook that always answers "ok" leaves the pool as no hook does.
Init ==
    /\ pending = EmptyMap
    /\ queue = EmptyMap
    /\ all = {}
    /\ pendingVolume = 0
    /\ queueVolume = 0
    /\ beats = EmptyMap
    /\ stateNonce = [a \in Addrs |-> 0]
    /\ balance = [a \in Addrs |-> MaxPrice]
    /\ pendingState = [a \in Addrs |-> 0]
    /\ tmClient = TRUE
    /\ adm = Idle
    /\ ret = NoRet
    /\ run = Started

\* The answers of the forward hook during one promoteExecutables: "ok" to
\* every transaction, or a failure <<tx, kind>> at one of txs (the pass
\* returns at the first error).
HookChoices(txs) == {<<NoTx, "ok">>} \cup (txs \X {"transient", "terminal"})

\* validateTx, lines 414-460, the checks that read the chain state.  st is
\* the state currentState() returned and ok whether it returned one.
validateTx(tx, st, ok) ==
    IF ~ok THEN "StateErr"
    ELSE IF ~repeatTxTest /\ st.nonce[tx.from] > tx.nonce THEN "ErrNonceTooLow"
    ELSE IF st.balance[tx.from] < Cost(tx) THEN "ErrInsufficientFunds"
    ELSE "nil"

\* What can be wrong with a transaction handed to validateTx besides its
\* nonce and its cost: its size, a negative value, gas above the block gas
\* limit, a signature that yields no sender, gas below the intrinsic gas.
\* The transactions of Tx have none of these flaws.
FlawKinds == {"size", "value", "gas", "sender", "intrinsic"}

validateTxIntrinsicFirst(tx, flaws, st, ok) ==
    IF "size" \in flaws THEN "ErrOversizedData"
    ELSE IF "value" \in flaws THEN "ErrNegativeValue"
    ELSE IF "gas" \in flaws THEN "ErrGasLimit"
    ELSE IF "sender" \in flaws THEN "ErrInvalidSender"
    ELSE IF "intrinsic" \in flaws THEN "ErrIntrinsicGas"
    ELSE validateTx(tx, st, ok)

\* validateTx on a transaction with the flaws given, lines 414-460: the
\* checks of lines 416-432, then currentState(), the nonce and the funds, and
\* the intrinsic gas at lines 455-458.
validateTxFlawed(tx, flaws, st, ok) ==
    IF "size" \in flaws THEN "ErrOversizedData"
    ELSE IF "value" \in flaws THEN "ErrNegativeValue"
    ELSE IF "gas" \in flaws THEN "ErrGasLimit"
    ELSE IF "sender" \in flaws THEN "ErrInvalidSender"
    ELSE IF validateTx(tx, st, ok) # "nil" THEN validateTx(tx, st, ok)
    ELSE IF "intrinsic" \in flaws THEN "ErrIntrinsicGas"
    ELSE "nil"

\* add, lines 507-509: r is what enqueueTx returned.
addEnqueued(r) ==
    IF ~r.ok THEN [p |-> r.p, err |-> "ErrReplaceUnderpriced", replace |-> FALSE]
    ELSE [p |-> r.p, err |-> "nil", replace |-> r.replace]

addOverPending(p, tx) ==
    IF tx \in p.all THEN [p |-> p, err |-> "known transaction", replace |-> FALSE]
    ELSE IF Cardinality(p.all) >= GlobalSlots + GlobalQueue
    THEN [p |-> p, err |-> "no room", replace |-> FALSE]
    ELSE addEnqueued(enqueueTx(p, tx))

addUnbounded(p, tx) ==
    IF tx \in p.all THEN [p |-> p, err |-> "known transaction", replace |-> FALSE]
    ELSE IF tx.from \in DOMAIN p.pending /\ Overlaps(p.pending[tx.from], tx)
    THEN [p |-> p, err |-> "ErrNonceNotReplaced", replace |-> FALSE]
    ELSE addEnqueued(enqueueTx(p, tx))

\* add under the lock, lines 479-509.
add(p, tx) ==
    IF tx \in p.all THEN [p |-> p, err |-> "known transaction", replace |-> FALSE]
    ELSE IF Cardinality(p.all) >= GlobalSlots + GlobalQueue
    THEN [p |-> p, err |-> "no room", replace |-> FALSE]
    ELSE IF tx.from \in DOMAIN p.pending /\ Overlaps(p.pending[tx.from], tx)
    THEN [p |-> p, err |-> "ErrNonceNotReplaced", replace |-> FALSE]
    ELSE addEnqueued(enqueueTx(p, tx))

\* add, lines 470-510, on a transaction with the flaws given: the error it
\* returns.
addFlawed(p, tx, flaws, st, ok) ==
    IF validateTxFlawed(tx, flaws, st, ok) # "nil"
    THEN validateTxFlawed(tx, flaws, st, ok)
    ELSE add(p, tx).err

\* Lines 612-621: verr is what validateTx returned and r what add did.
AddTxAdded(tx, verr, r) ==
    IF verr # "nil"
    THEN /\ ret' = Returned("submit", verr, "none", Get(Pool, tx))
         /\ adm' = adm
         /\ UNCHANGED poolVars
    ELSE /\ Unlocked
         /\ SetPool(r.p)
         /\ IF r.err # "nil" \/ r.replace
            THEN /\ ret' = Returned("submit", r.err, "none", Get(r.p, tx))
                 /\ adm' = adm
            ELSE /\ adm' = [pc |-> "added", tx |-> tx]
                 /\ ret' = ret

\* addTx up to the return of add, lines 611-616 and 470-510.
AddTxAdd ==
    /\ ret.op = "none" /\ adm.pc = "idle"
    /\ \E tx \in Tx, ok \in BOOLEAN :
          AddTxAdded(tx, validateTx(tx, currentState, ok), add(Pool, tx))
    /\ UNCHANGED <<stateNonce, balance, run>>

\* Line 632: r is what promoteExecutables returned.
AddTxPromoted(tx, r) ==
    /\ Unlocked
    /\ SetPool(r.p)
    /\ ret' = Returned("submit", r.err, r.err, Get(r.p, tx))

\* Lines 622-632: currentState(), then promoteExecutables for the sender
\* under the lock.
AddTxPromote ==
    /\ ret.op = "none" /\ adm.pc = "added"
    /\ \/ /\ UNCHANGED poolVars
          /\ ret' = Returned("submit", "StateErr", "none", Get(Pool, adm.tx))
       \/ \E h \in HookChoices(MapGet(queue, adm.tx.from, {})), ord \in Orders :
             AddTxPromoted(adm.tx,
                           promoteExecutables(Pool, currentState, <<adm.tx.from>>,
                                              h[1], h[2], ord))
    /\ adm' = Idle
    /\ UNCHANGED <<stateNonce, balance, run>>

\* Remove, lines 676-681.
Remove ==
    /\ ret.op = "none" /\ Unlocked
    /\ \E tx \in Tx : SetPool(removeTx(Pool, tx))
    /\ UNCHANGED <<stateNonce, balance, adm, ret, run>>

\* RemoveBatch, lines 684-691, on a batch of two.
RemoveBatch ==
    /\ ret.op = "none" /\ Unlocked
    /\ \E t1 \in all, t2 \in all :
          /\ t1 # t2
          /\ SetPool(RemoveAll(Pool, <<t1, t2>>))
    /\ UNCHANGED <<stateNonce, balance, adm, ret, run>>

\* Lines 281-282: r is what resetState left.  OnChainHeadEvent returns
\* nothing: the error recorded is the one resetState logged when
\* currentState() failed.
OnChainHeadReset(r, ok) ==
    /\ SetPool(r.p)
    /\ ret' = Returned("reset", IF ok THEN "nil" ELSE r.err,
                       IF ok THEN r.err ELSE "none", FALSE)

\* OnChainHeadEvent, lines 279-283.  One order stands for the walk over
\* pool.queue and for the ties of the caps.
OnChainHeadEvent ==
    /\ ret.op = "none" /\ Unlocked
    /\ \/ OnChainHeadReset(resetState(Pool, currentState, FALSE, NoTx, "ok",
                                      <<"a1", "a2">>, <<"a1", "a2">>), FALSE)
       \/ \E h \in HookChoices(all), ord \in Orders :
             OnChainHeadReset(resetState(Pool, currentState, TRUE, h[1], h[2],
                                         ord, ord), TRUE)
    /\ UNCHANGED <<stateNonce, balance, adm, run>>

\* The chain moves on: a block raises a nonce or changes a balance.
ChainAdvance ==
    /\ ret.op = "none"
    /\ \E a \in Movers :
          \/ /\ \E n \in 0..MaxStateNonce :
                   n # stateNonce[a] /\ stateNonce' = [stateNonce EXCEPT ![a] = n]
             /\ balance' = balance
          \/ /\ \E b \in Prices : b # balance[a] /\ balance' = [balance EXCEPT ![a] = b]
             /\ stateNonce' = stateNonce
    /\ UNCHANGED <<poolVars, adm, ret, run>>

\* The caller takes the result of the operation that returned.
Return ==
    /\ ret.op # "none"
    /\ ret' = NoRet
    /\ UNCHANGED <<poolVars, stateNonce, balance, adm, run>>

\* ----------------------------------------------------- batch admission
\* The batches handed to AddLocals / AddRemotes, or carried by a
\* RemovedTransactionEvent: each transaction comes with what the state
\* oracle will answer when validateTx asks for the state (TRUE: a state).
Batches == UNION {[1..n -> Tx \X BOOLEAN] : n \in 1..MaxBatch}

\* addTxs, lines 638-642: the mutex is taken and held to the return.  With
\* inLoop it is eventLoop that calls, lines 262-263.
AddTxsLocked(txs, inLoop) ==
    /\ run.batch.pc = "none" /\ Unlocked
    /\ run' = [run EXCEPT !.mu = "addTxs",
                          !.batch = [pc |-> "adding", txs |-> txs,
                                     dirty |-> {}, inLoop |-> inLoop,
                                     first |-> "nil"],
                          !.loop = IF inLoop THEN "removed" ELSE @]
    /\ UNCHANGED <<poolVars, stateNonce, balance, adm, ret>>

\* AddLocals / AddRemotes, lines 599-608.
AddTxsLock == \E txs \in Batches : AddTxsLocked(txs, FALSE)

\* Lines 644-649: r is what add did with the head of the batch.  first
\* keeps the error of the first transaction that add rejected, which the
\* condition of line 644 tests and drops.
AddTxsAdded(tx, r) ==
    /\ SetPool(r.p)
    /\ run' = [run EXCEPT !.batch.txs = Tail(@),
                          !.batch.dirty = IF r.err = "nil" /\ ~r.replace
                                          THEN @ \cup {tx} ELSE @,
                          !.batch.first = IF @ = "nil" THEN r.err ELSE @]

\* One turn of the loop of addTxs, lines 643-650, with add, lines 470-510:
\* validateTx, and then pool.mu.Lock() at line 479.
AddTxsAdd ==
    /\ run.batch.pc = "adding" /\ run.batch.txs # <<>>
    /\ IF validateTx(Head(run.batch.txs)[1], currentState, Head(run.batch.txs)[2]) # "nil"
       THEN /\ run' = [run EXCEPT
                          !.batch.txs = Tail(@),
                          !.batch.first =
                              IF @ = "nil"
                              THEN validateTx(Head(run.batch.txs)[1], currentState,
                                              Head(run.batch.txs)[2])
                              ELSE @]
            /\ UNCHANGED poolVars
       ELSE /\ Unlocked
            /\ AddTxsAdded(Head(run.batch.txs)[1], add(Pool, Head(run.batch.txs)[1]))
    /\ UNCHANGED <<stateNonce, balance, adm, ret>>

\* The senders of a set of transactions in the order ord.
Senders(txs, ord) == KeysInOrder({t.from : t \in txs}, ord)

\* addTxs returns, lines 638-639 (the deferred Unlock) and 664: the result
\* records whether every accepted transaction is in the pool.
AddTxsReturned(p, err, perr) ==
    /\ SetPool(p)
    /\ ret' = Returned("batch", err, perr, run.batch.dirty \subseteq p.all)
    /\ run' = [run EXCEPT !.mu = "free", !.batch = NoBatch,
                          !.loop = IF run.batch.inLoop THEN "select" ELSE @]

\* Line 662: r is what promoteExecutables returned; its error is dropped.
AddTxsPromoted(r) == AddTxsReturned(r.p, "nil", r.err)

\* Lines 652-664, after the last transaction of the batch.
AddTxsPromote ==
    /\ run.batch.pc = "adding" /\ run.batch.txs = <<>>
    /\ IF run.batch.dirty = {}
       THEN AddTxsReturned(Pool, "nil", "none")
       ELSE \/ AddTxsReturned(Pool, "StateErr", "none")
            \/ \E h \in HookChoices(all), ord \in Orders :
                  AddTxsPromoted(promoteExecutables(Pool, currentState,
                                                    Senders(run.batch.dirty, ord),
                                                    h[1], h[2], ord))
    /\ UNCHANGED <<stateNonce, balance, adm>>

\* ------------------------------------------- eventLoop, expirationLoop
\* eventLoop receives a ChainHeadEvent, lines 246-253, and goes on to
\* pool.mu.Lock().
LoopHead ==
    /\ run.loop = "select" /\ ~run.closed
    /\ run' = [run EXCEPT !.loop = "head"]
    /\ UNCHANGED <<poolVars, stateNonce, balance, adm, ret>>

\* Lines 253-260: r is what resetState left.
LoopResetDone(r, ok) ==
    /\ OnChainHeadReset(r, ok)
    /\ run' = [run EXCEPT !.loop = "select"]

\* Lines 253-260: the mutex, resetState, Unlock.
LoopReset ==
    /\ run.loop = "head" /\ Unlocked /\ ret.op = "none"
    /\ \/ LoopResetDone(resetState(Pool, currentState, FALSE, NoTx, "ok",
                                   <<"a1", "a2">>, <<"a1", "a2">>), FALSE)
       \/ \E h \in HookChoices(all), ord \in Orders :
             LoopResetDone(resetState(Pool, currentState, TRUE, h[1], h[2],
                                      ord, ord), TRUE)
    /\ UNCHANGED <<stateNonce, balance, adm>>

\* eventLoop receives a RemovedTransactionEvent, lines 262-263, and calls
\* addTxs with its transactions.
LoopRemoved ==
    /\ run.loop = "select" /\ ~run.closed
    /\ \E txs \in Batches : AddTxsLocked(txs, TRUE)

\* Lines 246-249: the subscription is closed, eventLoop returns.
LoopReturn ==
    /\ run.loop = "select" /\ run.closed
    /\ run' = [run EXCEPT !.loop = "done"]
    /\ UNCHANGED <<poolVars, stateNonce, balance, adm, ret>>

\* expirationLoop, lines 980-982: the ticker fires and the loop goes on to
\* pool.mu.Lock().
SweepTick ==
    /\ run.sweeper = "select"
    /\ run' = [run EXCEPT !.sweeper = "tick"]
    /\ UNCHANGED <<poolVars, stateNonce, balance, adm, ret>>

\* The heartbeat of addr, the zero time when it has none.
Beat(p, addr) == MapGet(p.beats, addr, 0)

\* The senders with queued transactions whose heartbeat is older than
\* Lifetime when the sweep runs at a time that leaves the heartbeats from
\* cut on younger (the zero time is always older).
Inactive(p, cut) == {a \in DOMAIN p.queue : Beat(p, a) < cut}

RECURSIVE SweepEach(_, _, _)
\* Lines 983-994, the loop over pool.queue: the turn of every address ends
\* at the continue of line 988, before the heartbeat is looked at.
SweepEach(p, addrs, old) ==
    IF addrs = {} THEN p
    ELSE SweepEach(p, addrs \ {CHOOSE a \in addrs : TRUE}, old)

\* One sweep, lines 981-995, under the mutex.
Sweep ==
    /\ run.sweeper = "tick" /\ Unlocked
    /\ \E cut \in 1..(Cardinality(Addrs) + 1) :
          /\ SetPool(SweepEach(Pool, DOMAIN queue, Inactive(Pool, cut)))
          /\ run' = [run EXCEPT !.sweeper = "select",
                                !.expired = Inactive(Pool, cut)]
    /\ UNCHANGED <<stateNonce, balance, adm, ret>>

\* Lines 997-998: pool.quit is closed, expirationLoop returns.
SweeperReturn ==
    /\ run.sweeper = "select" /\ run.closed
    /\ run' = [run EXCEPT !.sweeper = "done"]
    /\ UNCHANGED <<poolVars, stateNonce, balance, adm, ret>>

\* Stop, lines 316-318: Unsubscribe, close(pool.quit), then wg.Wait().
StopCall ==
    /\ run.stop = "none"
    /\ run' = [run EXCEPT !.stop = "waiting", !.closed = TRUE]
    /\ UNCHANGED <<poolVars, stateNonce, balance, adm, ret>>

\* Lines 318-321: wg.Wait() returns when both loops have called wg.Done().
StopReturn ==
    /\ run.stop = "waiting" /\ run.loop = "done" /\ run.sweeper = "done"
    /\ run' = [run EXCEPT !.stop = "done"]
    /\ UNCHANGED <<poolVars, stateNonce, balance, adm, ret>>

Next ==
    \/ AddTxAdd
    \/ AddTxPromote
    \/ Remove
    \/ RemoveBatch
    \/ OnChainHeadEvent
    \/ ChainAdvance
    \/ Return

Spec == Init /\ [][Next]_vars

\* Admissions one by one and in batches; every goroutine that can take a
\* step eventually takes one.
BatchNext ==
    \/ AddTxAdd
    \/ AddTxPromote
    \/ Return
    \/ AddTxsLock
    \/ AddTxsAdd
    \/ AddTxsPromote

BatchSpec ==
    /\ Init /\ [][BatchNext]_vars
    /\ WF_vars(AddTxsAdd) /\ WF_vars(AddTxsPromote) /\ WF_vars(Return)

\* The two loops and Stop.  A goroutine that can take a step eventually
\* takes it; a select whose return case is ready again and again eventually
\* takes that case.
StopNext ==
    \/ LoopHead
    \/ LoopReset
    \/ LoopRemoved
    \/ AddTxsAdd
    \/ AddTxsPromote
    \/ LoopReturn
    \/ SweepTick
    \/ Sweep
    \/ SweeperReturn
    \/ StopCall
    \/ StopReturn
    \/ Return

StopSpec ==
    /\ Init /\ [][StopNext]_vars
    /\ WF_vars(LoopReset) /\ WF_vars(AddTxsAdd) /\ WF_vars(AddTxsPromote)
    /\ WF_vars(Sweep) /\ WF_vars(StopReturn) /\ WF_vars(Return)
    /\ SF_vars(LoopReturn) /\ SF_vars(SweeperReturn)

\* Admissions one by one and the expiration sweep.
SweepNext ==
    \/ AddTxAdd
    \/ AddTxPromote
    \/ Return
    \/ SweepTick
    \/ Sweep

SweepSpec == Init /\ [][SweepNext]_vars

\* Admissions that fail nowhere, on a pool that has seen the head of the
\* chain: the state oracle answers, the forward hook accepts, and the chain
\* moves only while the pool is empty, a reset following before the next
\* admission.
Clean == ret.err = "nil" /\ ret.perr \in {"none", "nil"}

\* The managed nonce of a sender with nothing pending is the state nonce, as
\* resetState leaves it (line 291).
InSync ==
    \A a \in Addrs : a \notin DOMAIN pending => GetNonce(pendingState, a) = stateNonce[a]

GapNext ==
    \/ InSync /\ AddTxAdd /\ Clean'
    \/ AddTxPromote /\ Clean'
    \/ Return
    \/ all = {} /\ ChainAdvance
    \/ all = {} /\ OnChainHeadEvent /\ Clean'

GapSpec == Init /\ [][GapNext]_vars

\* --------------------------------------------------------- properties
\* No admission is between its two locked sections (add and
\* promoteExecutables): every operation called has returned.
Quiet == adm.pc = "idle"

\* The transactions held in the pending lists and in the queue lists.
Tiers(p) ==
    UNION {p.pending[a] : a \in DOMAIN p.pending}
        \cup UNION {p.queue[a] : a \in DOMAIN p.queue}

\* C1: after every public operation returns, the number of entries of all is
\* pendingVolume + queueVolume.
AllCountIsVolumes == Quiet => Cardinality(all) = pendingVolume + queueVolume

\* C2: after every public operation returns, the transactions indexed by all
\* are exactly those held in the pending lists and the queue lists.
AllIsUnionOfTiers == Quiet => all = Tiers(Pool)

\* C3: after every public operation returns, pendingVolume and queueVolume
\* are the two sums of list lengths that stats() computes.
VolumesAreStats ==
    Quiet => /\ pendingVolume = stats(Pool).pending
             /\ queueVolume = stats(Pool).queued

\* The nonces of a list are a run n0, n0+1, ... without gaps.
Contiguous(l) ==
    \A t \in l : \A n \in MinNonceTx(l).nonce..t.nonce : n \in NonceSet(l)
StrictlySorted(txs) ==
    \A i \in 1..(Len(txs) - 1) : txs[i].nonce < txs[i + 1].nonce

\* C4: every pending list is non-empty, its nonces are a run without gaps
\* that Pending() returns strictly sorted, and the run starts at the state
\* nonce its sender had at the last reset (checked as a reset returns, when
\* the state it observed is the current one).
PendingRunsFromStateNonce ==
    /\ \A a \in DOMAIN pending :
          /\ pending[a] # {}
          /\ Contiguous(pending[a])
          /\ StrictlySorted(Pending(Pool)[a])
    /\ (ret.op = "reset" /\ ret.perr # "none") =>
          \A a \in DOMAIN pending : MinNonceTx(pending[a]).nonce = stateNonce[a]

\* C5: for every sender with pending transactions the managed nonce is the
\* highest pending nonce plus one.
ManagedNonceFollowsPending ==
    \A a \in DOMAIN pending :
        pending[a] # {} => GetNonce(pendingState, a) = MaxNonceTx(pending[a]).nonce + 1

\* A promotion evicted the transaction just submitted and left a1 at
\* AccountSlots pending transactions, its managed nonce rolled back.
ManagedNonceRolledBack ==
    /\ ret.op = "submit" /\ ret.perr = "nil" /\ ~ret.got
    /\ "a1" \in DOMAIN pending
    /\ Cardinality(pending["a1"]) = AccountSlots
    /\ GetNonce(pendingState, "a1") = MaxNonceTx(pending["a1"]).nonce + 1
    /\ queue = EmptyMap
    /\ Cardinality(all) = GlobalSlots

\* C6: all never indexes more than GlobalSlots + GlobalQueue transactions.
AllWithinCapacity == Cardinality(all) <= GlobalSlots + GlobalQueue

\* An admission was rejected for lack of room with all at the bound.
RejectedAtCapacity ==
    /\ ret.op = "submit" /\ ret.err = "no room"
    /\ Cardinality(all) = GlobalSlots + GlobalQueue

\* C7: after an operation returns without error, no queued transaction has
\* the managed nonce of its sender.
NoQueuedAtManagedNonce ==
    (Quiet /\ ret.op # "none" /\ ret.err = "nil") =>
        \A a \in DOMAIN queue : \A t \in queue[a] : t.nonce # GetNonce(pendingState, a)

\* C8: when addTx returns no error, Get of the hash of its transaction right
\* afterwards returns the transaction (of an admission whose transaction is
\* in the pool and valid on the chain as its promoteExecutables begins).
SubmittedIsGettable ==
    [][(/\ ret.op = "none"
        /\ ret'.op = "submit" /\ ret'.err = "nil"
        /\ adm.pc = "added" =>
              /\ Get(Pool, adm.tx)
              /\ validateTx(adm.tx, currentState, TRUE) = "nil") => ret'.got]_vars

QueueWithinGlobalQueue ==
    ret.perr # "none" =>
        /\ U64Le(queueVolume, GlobalQueue)
        /\ stats(Pool).queued <= GlobalQueue
\* C11: a batch admission always returns, and when it has returned every
\* transaction of the batch that passed the checks of add is in the pool.
BatchAdmissionReturns ==
    (run.batch.pc = "adding") ~> (ret.op = "batch" /\ ret.got)

\* C12: when addTx returns an error its transaction is not in the pool and
\* the pool is as it was before the call: unchanged by a call that failed in
\* add, and, for a call that failed after add enqueued the transaction (and
\* nothing took it away since), the state to which add gave the state left
\* by add.
SubmitErrorLeavesPool ==
    [][(ret.op = "none" /\ ret'.op = "submit" /\ ret'.err # "nil") =>
          /\ ~ret'.got
          /\ IF adm.pc = "added"
             THEN Get(Pool, adm.tx) => add(Pool', adm.tx).p = Pool
             ELSE UNCHANGED poolVars]_vars

\* C13: once Stop is called, eventLoop and expirationLoop return and Stop
\* itself returns, with no admission left in flight.
StopReturns ==
    (run.stop = "waiting") ~>
        (run.stop = "done" /\ run.loop = "done" /\ run.sweeper = "done"
            /\ run.batch.pc = "none")

\* C20: a sweep of expirationLoop that finds queued transactions of a sender
\* whose heartbeat is older than Lifetime removes them from the queue and
\* from all and deletes the sender's queue list and heartbeat.
SweepRemovesInactive ==
    [][(run.sweeper = "tick" /\ run'.sweeper = "select") =>
          \A a \in run'.expired :
              /\ a \notin DOMAIN queue'
              /\ a \notin DOMAIN beats'
              /\ queue[a] \cap all' = {}]_vars

\* C14: the enqueue and the promotion of one admission are atomic: no state
\* in which the mutex is free (so that a reader or writer can run) has the
\* transaction of an admission in flight in the queue at the managed nonce of
\* its sender.
AdmissionIsAtomic ==
    (adm.pc = "added" /\ Unlocked) =>
        ~(/\ adm.tx \in MapGet(queue, adm.tx.from, {})
          /\ adm.tx.nonce = GetNonce(pendingState, adm.tx.from))

\* C15: after a reset() that succeeded, no transaction whose nonce is below
\* the state nonce of its sender is left in the pool: it is not indexed by
\* all (get returns none) and it is in neither pending nor queue.
StaleGoneAfterReset ==
    (ret.op = "reset" /\ ret.err = "nil") =>
        \A t \in all \cup Tiers(Pool) : t.nonce >= stateNonce[t.from]

\* C16: removal is idempotent: in every reachable pool state and for every
\* hash, removing twice leaves the same pending, queue, all, volumes, managed
\* nonces and beats as removing once, whether or not the hash is in the pool.
RemoveIsIdempotent ==
    \A tx \in Tx : removeTx(removeTx(Pool, tx), tx) = removeTx(Pool, tx)

\* A first removal that acts: it takes a pending transaction out, postpones
\* a later one and rolls the managed nonce back.
RemoveActsOnce ==
    \E tx \in all :
        /\ removeTx(Pool, tx).pendingState # pendingState
        /\ removeTx(Pool, tx).queue # queue
        /\ removeTx(removeTx(Pool, tx), tx) = removeTx(Pool, tx)

Run(ns, n0) == {n \in ns : \A m \in n0..n : m \in ns}

Trimmed(p, q) == {a \in DOMAIN p.pending : MapGet(q.pending, a, {}) # p.pending[a]}

FairlyCapped(p, q) ==
    /\ \A a \in DOMAIN p.pending :
          /\ MapGet(q.pending, a, {}) \subseteq p.pending[a]
          /\ Cardinality(p.pending[a]) <= AccountSlots => q.pending[a] = p.pending[a]
          /\ Cardinality(p.pending[a]) > AccountSlots =>
                Cardinality(MapGet(q.pending, a, {})) >= AccountSlots
    /\ \/ U64Le(q.pendingVolume, GlobalSlots)
       \/ \A a \in Trimmed(p, q) : Cardinality(q.pending[a]) = AccountSlots

\* r is what the loop over the accounts left in promoteExecutables.
CapsFairly(r, ord) == r.err = "nil" => FairlyCapped(r.p, CapPending(r.p, ord))

BatchReturnsFirstError ==
    [][(run.batch.pc = "adding" /\ run'.batch.pc = "none"
            /\ run.batch.first # "nil") => ret'.err = run.batch.first]_vars

\* C22: when the forward hook fails for a transaction that a submission
\* promotes, the submission still returns no error, and after a terminal
\* failure the transaction the hook refused is not in the pool.
HookFailureNotReturned ==
    /\ (ret.op = "submit" /\ ret.perr \notin {"none", "nil"}) => ret.err = "nil"
    /\ adm.pc = "added" =>
          \A t \in MapGet(queue, adm.tx.from, {}), ord \in Orders :
              promoteExecutables(Pool, currentState, <<adm.tx.from>>,
                                 t, "terminal", ord).err = "ResultLog" =>
                  ~Get(promoteExecutables(Pool, currentState, <<adm.tx.from>>,
                                          t, "terminal", ord).p, t)

\* C23: a reset in which the state oracle fails leaves pending, queue, all,
\* pendingVolume, queueVolume, beats and the managed nonces exactly as they
\* were before the call.
FailedResetChangesNothing ==
    [][(ret.op = "none" /\ ret'.op = "reset" /\ ret'.err = "StateErr") =>
          UNCHANGED poolVars]_vars

\* A reset failed on the state oracle while a transaction below the state
\* nonce of its sender was in the pool, which a reset would have dropped.
ResetFailedOnStale ==
    /\ ret.op = "reset" /\ ret.err = "StateErr"
    /\ \E t \in Tiers(Pool) : t.nonce < stateNonce[t.from]

\* C24: the pool enforces its minimum gas price: no transaction whose price
\* is below gasPrice is ever in pending, in the queue or in all.
NoneBelowGasPrice == \A t \in all \cup Tiers(Pool) : t.price >= gasPrice

\* q is the pool after remove(hash(tx)) on the pool p, in which tx is
\* pending: tx is gone and every pending transaction of its sender with a
\* higher nonce is in the queue of the sender and in all.
PostponedAfter(p, q, tx) ==
    /\ tx \notin q.all \cup Tiers(q)
    /\ \A u \in p.pending[tx.from] :
          u.nonce > tx.nonce =>
              u \in q.all /\ u \in MapGet(q.queue, tx.from, {})

\* C25: removing a pending transaction takes it out of the pool and moves
\* every pending transaction of the sender with a higher nonce to the queue,
\* still indexed by all, whatever the position of the transaction in the
\* pending run.
RemovePostponesLater ==
    \A tx \in all :
        (tx.from \in DOMAIN pending /\ tx \in pending[tx.from]) =>
            PostponedAfter(Pool, removeTx(Pool, tx), tx)

\* The pool that the loop over the accounts leaves in the promoteExecutables
\* of a reset of the pool p with the state st, before the caps.
ResetPromoted(p, st, fail, kind, walk) ==
    PromoteAccounts(p, st, KeysInOrder(DOMAIN p.queue, walk), fail, kind)

\* t is payable and not behind the state st.
Executable(t, st) ==
    t.nonce >= st.nonce[t.from] /\ Cost(t) <= st.balance[t.from] /\ TxGas <= gasLimit

\* q is the pool after a reset of the pool p with the state st: every
\* pending transaction of p that is executable is in all, in the queue of its
\* sender if a pending transaction of the sender with a lower nonce was
\* dropped as unpayable, and in its pending list otherwise.
KeptByReset(p, st, q) ==
    \A a \in DOMAIN p.pending : \A t \in p.pending[a] :
        Executable(t, st) =>
            /\ t \in q.all
            /\ IF \E u \in p.pending[a] :
                     /\ u.nonce < t.nonce /\ u.nonce >= st.nonce[a]
                     /\ ~Executable(u, st)
               THEN t \in MapGet(q.queue, a, {})
               ELSE t \in MapGet(q.pending, a, {})

\* r is what ResetPromoted left: the counts of the transactions really
\* pending and really queued are within GlobalSlots and GlobalQueue.
WithinCaps(r) ==
    stats(r.p).pending <= GlobalSlots /\ stats(r.p).queued <= GlobalQueue

ResetKeepsExecutable(p, st, r, ord) ==
    WithinCaps(r) => KeptByReset(p, st, PromoteCaps(r, ord).p)

\* C26: a reset loses no pending transaction that is not behind the new
\* state nonce and is payable: it stays pending, or it is queued when a
\* pending transaction of the sender with a lower nonce was dropped as
\* unpayable, and it is in the pool when the reset returns, provided the
\* transactions really pending and really queued are within the caps.
ResetLosesNoExecutable ==
    \A h \in HookChoices(all), ord \in Orders :
        ResetKeepsExecutable(
            Pool, currentState,
            ResetPromoted(NoncesAfterPending(demoteUnexecutables(
                              [Pool EXCEPT !.pendingState = stateNonce], currentState)),
                          currentState, h[1], h[2], ord),
            ord)

\* q is the pool after the future-queue eviction of the pool p: a sender
\* lost queued transactions only if every sender with an older heartbeat has
\* no queued transaction left, and lost its highest nonces first.
OldestFirst(p, q) ==
    \A a \in DOMAIN p.queue :
        MapGet(q.queue, a, {}) # p.queue[a] =>
            /\ \A b \in DOMAIN p.queue :
                  Beat(p, b) < Beat(p, a) => MapGet(q.queue, b, {}) = {}
            /\ \A t \in MapGet(q.queue, a, {}), u \in p.queue[a] \ MapGet(q.queue, a, {}) :
                  t.nonce < u.nonce

\* p is the pool after the pending fairness eviction.
EvictsOldestFirst(p, ord) == OldestFirst(p, CapQueue(p, ord))

\* r is what the loop over the accounts left in promoteExecutables.
QueueCapByAge(r, ord) == r.err = "nil" => EvictsOldestFirst(CapPending(r.p, ord), ord)

\* C27: the future-queue eviction of every promoteExecutables that an
\* admission runs drops by age, oldest heartbeat first, and within the sender
\* it evicts in part the highest nonces first.
QueueEvictionOldestFirst ==
    adm.pc = "added" =>
        \A h \in HookChoices(MapGet(queue, adm.tx.from, {})), ord \in Orders :
            QueueCapByAge(PromoteAccounts(Pool, currentState, <<adm.tx.from>>,
                                          h[1], h[2]), ord)

\* C28: once eventLoop has taken a removed-transactions event, the batch
\* admission returns with every transaction it accepted in the pool and the
\* loop is back at its select, where a new-head event is taken next.
LoopGoesOnAfterRemoved ==
    (run.loop = "removed") ~> (run.loop = "select" /\ ret.op = "batch" /\ ret.got)

\* The first check that fails for tx on the pool p with the state st, in the
\* order of the admission procedure; "nil" when none fails.
FirstFailing(tx, flaws, p, st) ==
    IF "size" \in flaws THEN "ErrOversizedData"
    ELSE IF "value" \in flaws THEN "ErrNegativeValue"
    ELSE IF "gas" \in flaws THEN "ErrGasLimit"
    ELSE IF "sender" \in flaws THEN "ErrInvalidSender"
    ELSE IF tx.nonce < st.nonce[tx.from] THEN "ErrNonceTooLow"
    ELSE IF st.balance[tx.from] < Cost(tx) THEN "ErrInsufficientFunds"
    ELSE IF "intrinsic" \in flaws THEN "ErrIntrinsicGas"
    ELSE IF tx \in p.all THEN "known transaction"
    ELSE IF Cardinality(p.all) >= GlobalSlots + GlobalQueue THEN "no room"
    ELSE IF \E o \in MapGet(p.pending, tx.from, {}) : o.nonce = tx.nonce
    THEN "ErrNonceNotReplaced"
    ELSE IF \E o \in MapGet(p.queue, tx.from, {}) :
                o.nonce = tx.nonce /\ tx.price * 100 < o.price * (100 + PriceBump)
    THEN "ErrReplaceUnderpriced"
    ELSE "nil"

NothingElseLost(p, addr, fail, r) ==
    r.err # "nil" =>
        /\ \A u \in p.queue[addr] \ {fail} : u \in r.p.all => u \in Tiers(r.p)
        /\ r.p.queueVolume = stats(r.p).queued
        /\ \A a \in DOMAIN r.p.queue : r.p.queue[a] # {}

\* C30: when the forward hook fails, transiently or terminally, for one
\* transaction during the promoteExecutables of an admission, on a pool whose
\* queue volume is exact and whose queue has no empty list, no other
\* transaction is lost, the queue volume stays exact and no empty list is
\* left in the queue.
HookFailureLosesNothing ==
    (/\ adm.pc = "added" /\ adm.tx.from \in DOMAIN queue
     /\ queueVolume = stats(Pool).queued
     /\ \A a \in DOMAIN queue : queue[a] # {}) =>
        \A h \in queue[adm.tx.from] \X {"transient", "terminal"}, ord \in Orders :
            NothingElseLost(Pool, adm.tx.from, h[1],
                            promoteExecutables(Pool, currentState, <<adm.tx.from>>,
                                               h[1], h[2], ord))

\* C31: the unsigned counters pendingVolume and queueVolume never wrap:
\* neither is ever decremented at 0 (a wrapped counter reads as a negative
\* number here).
VolumesNeverWrap == pendingVolume >= 0 /\ queueVolume >= 0

OthersUntouched(p, q, a) ==
    \A b \in Addrs \ {a} :
        /\ MapGet(q.pending, b, {}) = MapGet(p.pending, b, {})
        /\ MapGet(q.queue, b, {}) = MapGet(p.queue, b, {})
        /\ GetNonce(q.pendingState, b) = GetNonce(p.pendingState, b)

TrulyWithinCaps(p) ==
    stats(p).pending <= GlobalSlots /\ stats(p).queued <= GlobalQueue

\* r is what the loop over the accounts left of the pool p in the
\* promoteExecutables of an admission by a, and c what its caps made of r.
CapsSpareOthers(p, a, r, c) ==
    (TrulyWithinCaps(r.p) /\ TrulyWithinCaps(c.p)) => OthersUntouched(p, c.p, a)

\* C33: an admission by sender a (add, then promoteExecutables for a) leaves
\* the pending list, the queue list and the managed nonce of every other
\* sender unchanged whenever the pool truly holds at most GlobalSlots
\* pending and at most GlobalQueue queued transactions when the caps are
\* applied and after them.
AdmissionLeavesOthers ==
    /\ \A tx \in Tx : OthersUntouched(Pool, add(Pool, tx).p, tx.from)
    /\ adm.pc = "added" =>
          \A h \in HookChoices(MapGet(queue, adm.tx.from, {})), ord \in Orders :
              CapsSpareOthers(Pool, adm.tx.from,
                  PromoteAccounts(Pool, currentState, <<adm.tx.from>>, h[1], h[2]),
                  promoteExecutables(Pool, currentState, <<adm.tx.from>>,
                                     h[1], h[2], ord))
====
